---- MODULE Spec2Model ----
(***************************************************************************)
(* BrowserWorld (app/src/main/cpp/BrowserWorld.cpp): the controller        *)
(* interaction state, the per-frame stereo render pass and the lifecycle   *)
(* operations of the VR browser shell, as a state machine.                 *)
(*                                                                         *)
(* Pointers are modelled by whether they are null (BOOLEAN, TRUE = set),   *)
(* floats by small integers.  Everything Draw() calls on the device, the   *)
(* scene, the widgets and the host is collected, in order, in a call list, *)
(* DrawResult(in).calls.  A device, scene or widget call is <<name, ...>>; *)
(* a host call is <<name, jmethodID, arguments, env, activity>> and is     *)
(* listed with the env, activity and jmethodID the code passes, null or    *)
(* not: the list says what the code attempts.                              *)
(***************************************************************************)
EXTENDS Integers, Sequences, FiniteSets, TLC

\* ------------------------------------------------------------------ bounds
MaxControllers == 2
FrameControllers == 1
MaxWidgets == 4
MaxGestures == 1
MaxCoord == 1
MaxScroll == 1

\* ------------------------------------------------------- program constants
WidgetTypeBrowser == 0
WidgetTypeURLBar == 1
GestureSwipeLeft == 0
GestureSwipeRight == 1
kScrollFactor == 20
farClip == 100

\* ------------------------------------------------------------------- state
VARIABLES
  device,                  \* m.device: NullDevice or a device delegate
  paused,                  \* m.paused
  glInitialized,           \* m.glInitialized
  controllerCount,         \* m.controllerCount
  controllers,             \* m.controllers: sequence of ControllerRecord
  widgets,                 \* m.widgets: sequence of widgets, insertion order
  root,                    \* the nodes under m.root
  drawList,                \* the nodes m.drawList holds
  leftCamera, rightCamera, \* m.leftCamera, m.rightCamera ("null" when unset)
  gestures,                \* m.gestures is non-null
  env, activity,           \* m.env, m.activity are non-null
  handleMotionEventMethod, \* the jmethodIDs are non-null
  handleScrollEventMethod,
  handleAudioPoseMethod,
  handleGestureMethod,
  noVrApi,                 \* the build defines VRBROWSER_NO_VR_API
  last                     \* history: per controller record, what the most
                           \* recent executed frame computed for it

progVars == <<device, paused, glInitialized, controllerCount, controllers,
              widgets, root, drawList, leftCamera, rightCamera, gestures,
              env, activity, handleMotionEventMethod, handleScrollEventMethod,
              handleAudioPoseMethod, handleGestureMethod>>
vars == <<progVars, noVrApi, last>>

javaVars == <<env, activity, handleMotionEventMethod, handleScrollEventMethod,
              handleAudioPoseMethod, handleGestureMethod>>
deviceVars == <<device, controllerCount, leftCamera, rightCamera, gestures>>

\* --------------------------------------------------------- external values
NullDevice == [controllerCount |-> 0, gestures |-> FALSE, present |-> FALSE]

\* A device delegate: its controller count and whether it has a gesture
\* delegate.
DeviceDelegates(maxCount) ==
  [controllerCount : 0..maxCount, gestures : BOOLEAN, present : {TRUE}]

HostMethods == {"handleMotionEvent", "handleScrollEvent", "handleAudioPose",
                "handleGesture"}

GestureTypes == {"SwipeLeft", "SwipeRight", "Other"}

\* The fields the copy and move constructors of ControllerRecord leave
\* without a value.
ValueFields == {"pressed", "xx", "yy", "touched", "touchPadX", "touchPadY"}

RECURSIVE SeqProduct(_)
SeqProduct(sets) ==
  IF sets = <<>> THEN {<<>>}
  ELSE {<<h>> \o t : h \in Head(sets), t \in SeqProduct(Tail(sets))}

RECURSIVE SeqsUpTo(_, _)
SeqsUpTo(S, n) ==
  IF n = 0 THEN {<<>>}
  ELSE SeqsUpTo(S, n - 1) \cup {Append(s, x) : s \in SeqsUpTo(S, n - 1), x \in S}

\* -------------------------------------------------------- ControllerRecord
\* ControllerRecord(const int32_t aIndex)
ControllerRecord(aIndex) ==
  [index |-> aIndex, widget |-> 0, pressed |-> FALSE, xx |-> 0, yy |-> 0,
   touched |-> FALSE, touchPadX |-> 0, touchPadY |-> 0,
   controller |-> [kind |-> "null", made |-> 0, id |-> 0], uninit |-> {}]

\* ControllerRecord(ControllerRecord&& aRecord): only widget, index and
\* controller are initialized; the other fields hold indeterminate values.
MoveConstruct(aRecord) ==
  [aRecord EXCEPT !.uninit = ValueFields]

\* Reading a field: an indeterminate field yields whatever the memory holds
\* (garbage[f]); an initialized one its value.
ReadField(record, f, garbage) ==
  IF f \in record.uninit THEN garbage[f] ELSE record[f]

\* ----------------------------------------------------------------- widgets
\* Widget::Create: a widget with a fresh non-zero handle, its pointer
\* highlight off, and its root node.
NewWidget(aType, aHandle, aNode) ==
  [type |-> aType, handle |-> aHandle, pointer |-> FALSE, node |-> aNode]

\* Scene nodes: a widget's root (id: its handle), a controller's transform
\* (id: its index) and the floor; made tells the InitializeJava call that
\* created the node, by the number of widgets it left.
WidgetNode(made, id) == [kind |-> "widget", made |-> made, id |-> id]
ControllerNode(made, id) == [kind |-> "controller", made |-> made, id |-> id]
FloorNode(made) == [kind |-> "floor", made |-> made, id |-> 0]

\* The result of Widget::TestControllerIntersection before the call
\* (distance = 0.0f, isInWidget = false) and when it returns false.
Miss == [hit |-> FALSE, isInWidget |-> FALSE, distance |-> 0, point |-> <<0, 0>>]

HitAt(aInWidget, aDistance, aPoint) ==
  [hit |-> TRUE, isInWidget |-> aInWidget, distance |-> aDistance, point |-> aPoint]

\* Widget::ConvertToWidgetCoordinates: the intersection point is carried as
\* its coordinates in the widget's plane.
ConvertToWidgetCoordinates(aPoint) == [x |-> aPoint[1], y |-> aPoint[2]]

\* ------------------------------------------------------- UpdateControllers
\* A variant of Closer that lets an equally distant later widget win.
CloserOrEqual(distance, hitDistance) == distance <= hitDistance

\* distance < hitDistance
Closer(distance, hitDistance) == distance < hitDistance

\* A variant of HitScan that does not look at isInWidget.
RECURSIVE HitScanAnyHit(_, _, _)
HitScanAnyHit(hits, k, best) ==
  IF k > Len(widgets) THEN best
  ELSE IF hits[k].hit /\ Closer(hits[k].distance, best.hitDistance)
       THEN HitScanAnyHit(hits, k + 1, [hitWidget |-> k, hitDistance |-> hits[k].distance,
                                        hitPoint |-> hits[k].point])
       ELSE HitScanAnyHit(hits, k + 1, best)

\* The widget loop of UpdateControllers: the nearest bounded hit, as the
\* position of the widget in m.widgets (0: hitWidget is null).
RECURSIVE HitScan(_, _, _)
HitScan(hits, k, best) ==
  IF k > Len(widgets) THEN best
  ELSE IF hits[k].hit /\ hits[k].isInWidget /\ Closer(hits[k].distance, best.hitDistance)
       THEN HitScan(hits, k + 1, [hitWidget |-> k, hitDistance |-> hits[k].distance,
                                   hitPoint |-> hits[k].point])
       ELSE HitScan(hits, k + 1, best)

\* A variant of NearestHit in which hitWidget starts as the first widget.
NearestHitFromFirst(hits) ==
  HitScan(hits, 1, [hitWidget |-> 1, hitDistance |-> farClip, hitPoint |-> <<0, 0>>])

NearestHit(hits) ==
  HitScan(hits, 1, [hitWidget |-> 0, hitDistance |-> farClip, hitPoint |-> <<0, 0>>])

\* m.env->CallVoidMethod(m.activity, method, args...)
CallVoidMethod(name, method, args) == <<name, method, args, env, activity>>

\* The gesture loop: one host call per pending gesture of a known kind.
JavaType(type) ==
  IF type = "SwipeLeft" THEN GestureSwipeLeft
  ELSE IF type = "SwipeRight" THEN GestureSwipeRight
  ELSE -1

RECURSIVE GestureCalls(_, _)
GestureCalls(pending, count) ==
  IF count > Len(pending) THEN <<>>
  ELSE (IF JavaType(pending[count]) >= 0 /\ handleGestureMethod
        THEN << CallVoidMethod("handleGesture", handleGestureMethod,
                               <<JavaType(pending[count])>>) >>
        ELSE <<>>)
       \o GestureCalls(pending, count + 1)

\* A variant of Changed that does not compare the button state.
ChangedIgnoringPressed(record, garbage, theX, theY, pressed, handle) ==
  \/ ReadField(record, "xx", garbage) # theX
  \/ ReadField(record, "yy", garbage) # theY
  \/ record.widget # handle

\* (record.xx != theX) || (record.yy != theY) || (record.pressed != pressed)
\*   || record.widget != handle
Changed(record, garbage, theX, theY, pressed, handle) ==
  \/ ReadField(record, "xx", garbage) # theX
  \/ ReadField(record, "yy", garbage) # theY
  \/ ReadField(record, "pressed", garbage) # pressed
  \/ record.widget # handle

\* if (record.touched && !record.pressed)
ScrollGate(record, garbage) ==
  ReadField(record, "touched", garbage) /\ ~ReadField(record, "pressed", garbage)

\* A variant of PointerStored that does not store the button state.
PointerStoredWithoutPressed(record, theX, theY, pressed, handle) ==
  [record EXCEPT !.widget = handle, !.xx = theX, !.yy = theY,
                 !.uninit = @ \ {"xx", "yy"}]

\* A variant of PointerStored that does not store the widget handle.
PointerStoredWithoutWidget(record, theX, theY, pressed, handle) ==
  [record EXCEPT !.xx = theX, !.yy = theY, !.pressed = pressed,
                 !.uninit = @ \ {"xx", "yy", "pressed"}]

\* record.widget = handle; record.xx = theX; record.yy = theY;
\* record.pressed = pressed;
PointerStored(record, theX, theY, pressed, handle) ==
  [record EXCEPT !.widget = handle, !.xx = theX, !.yy = theY, !.pressed = pressed,
                 !.uninit = @ \ {"xx", "yy", "pressed"}]

\* if (device->GetControllerScrolled(...)) { ...; record.touched = true;
\* record.touchPadX = scrollX; record.touchPadY = scrollY; }
\* else { record.touched = false; }
ScrollStored(record, scroll) ==
  IF scroll # <<>>
  THEN [record EXCEPT !.touched = TRUE, !.touchPadX = scroll[1], !.touchPadY = scroll[2],
                      !.uninit = @ \ {"touched", "touchPadX", "touchPadY"}]
  ELSE [record EXCEPT !.touched = FALSE, !.uninit = @ \ {"touched"}]

\* The calls of the scroll block: GetControllerScrolled, then the scroll
\* event with the deltas from the stored pad position.
ScrollCalls(record, cin) ==
  << <<"GetControllerScrolled", record.index>> >>
  \o (IF cin.scroll # <<>> /\ ScrollGate(record, cin.garbage)
      THEN << CallVoidMethod("handleScrollEvent", handleScrollEventMethod,
                <<record.widget, record.index,
                  (cin.scroll[1] - ReadField(record, "touchPadX", cin.garbage)) * kScrollFactor,
                  (cin.scroll[2] - ReadField(record, "touchPadY", cin.garbage)) * kScrollFactor>>) >>
      ELSE <<>>)

\* The scroll block on the record as the pointer dispatch left it, after
\* the calls made so far.
ScrollPass(record, cin, calls) ==
  [record |-> ScrollStored(record, cin.scroll),
   calls |-> calls \o ScrollCalls(record, cin)]

\* The pointer dispatch on the local coordinates, button state and handle
\* of this frame, followed by the scroll block.
PointerDispatch(record, cin, hitPoint, local, pressed, handle) ==
  ScrollPass(
    IF Changed(record, cin.garbage, local.x, local.y, pressed, handle)
    THEN PointerStored(record, local.x, local.y, pressed, handle)
    ELSE record,
    cin,
    << <<"ConvertToWidgetCoordinates", handle, hitPoint>>,
       <<"GetControllerButtonState", record.index>> >>
    \o (IF Changed(record, cin.garbage, local.x, local.y, pressed, handle)
        THEN << CallVoidMethod("handleMotionEvent", handleMotionEventMethod,
                               <<handle, record.index, pressed, local.x, local.y>>) >>
        ELSE <<>>))

\* The body of if (handleMotionEventMethod && hitWidget): pointer dispatch,
\* then scroll handling.  cin is what the device reports for the controller
\* in this frame.
PointerPass(record, cin, hit) ==
  PointerDispatch(record, cin, hit.hitPoint, ConvertToWidgetCoordinates(hit.hitPoint),
                  cin.pressed, widgets[hit.hitWidget].handle)

\* The calls of an iteration up to the pointer block: the controller
\* transform, the hit test of every widget, the gesture loop.
HitTestCalls(record, pending) ==
  << <<"GetControllerTransform", record.index>>,
     <<"SetTransform", record.controller>> >>
  \o [k \in 1..Len(widgets) |->
        <<"TestControllerIntersection", widgets[k].handle, record.index>>]
  \o (IF gestures THEN GestureCalls(pending, 1) ELSE <<>>)

\* An iteration that ran the pointer block on widget hitWidget.
PointerIteration(head, p, hitWidget) ==
  [record |-> p.record, calls |-> head \o p.calls,
   active |-> <<hitWidget>>, hit |-> hitWidget]

\* The rest of an iteration once the nearest hit is known.
ControllerHit(record, cin, pending, hit) ==
  IF handleMotionEventMethod /\ hit.hitWidget # 0
  THEN PointerIteration(HitTestCalls(record, pending), PointerPass(record, cin, hit),
                        hit.hitWidget)
  ELSE [record |-> record, calls |-> HitTestCalls(record, pending),
        active |-> <<>>, hit |-> hit.hitWidget]

\* One iteration of for (ControllerRecord& record: controllers).
ControllerPass(record, cin, pending) ==
  ControllerHit(record, cin, pending, NearestHit(cin.hits))

\* What the loop has done so far, with one more iteration s.
Collect(acc, s) ==
  [records |-> Append(acc.records, s.record),
   calls |-> acc.calls \o s.calls,
   active |-> acc.active \o s.active,
   hits |-> Append(acc.hits, s.hit)]

RECURSIVE ControllerLoop(_, _, _)
ControllerLoop(in, k, acc) ==
  IF k > Len(controllers) THEN acc
  ELSE ControllerLoop(in, k + 1,
                      Collect(acc, ControllerPass(controllers[k], in.ctl[k], in.pending)))

\* widget->TogglePointer(false) for every widget in every controller's
\* iteration, then TogglePointer(true) for the widgets in active.
Highlights(active) ==
  [k \in 1..Len(widgets) |->
     [widgets[k] EXCEPT !.pointer =
        IF \E j \in 1..Len(active) : active[j] = k THEN TRUE
        ELSE IF Len(controllers) > 0 THEN FALSE
        ELSE @]]

\* The state and calls UpdateControllers leaves, given what its loop did.
LoopResult(loop) ==
  [controllers |-> loop.records, widgets |-> Highlights(loop.active),
   calls |-> loop.calls, hits |-> loop.hits]

UpdateControllers(in) ==
  LoopResult(ControllerLoop(in, 1, [records |-> <<>>, calls |-> <<>>,
                                    active |-> <<>>, hits |-> <<>>]))

\* ----------------------------------------------------------------- Draw()
\* A variant of DrawSkipped that does not look at m.paused.
DrawSkippedUnlessDevice == ~device.present

\* The early returns of Draw(): no device, or paused.
DrawSkipped == ~device.present \/ paused

\* A variant of GLAfterDraw that does not look at what InitializeGL returns.
GLAssumedReady(glOk) == TRUE

\* if (!m.glInitialized) { m.glInitialized = m.context->InitializeGL(); ... }
GLAfterDraw(glOk) == IF glInitialized THEN TRUE ELSE glOk

\* A variant of RenderCalls that culls after the left eye is drawn.
RenderCallsCullLate ==
  << <<"Reset">>, <<"StartFrame">>,
     <<"BindEye", "Left">>, <<"Draw", leftCamera>>, <<"Cull">> >>
  \o (IF noVrApi THEN <<>>
      ELSE << <<"BindEye", "Right">>, <<"Draw", rightCamera>> >>)
  \o << <<"EndFrame">> >>

\* The render pass after UpdateControllers.
RenderCalls ==
  << <<"Reset">>, <<"Cull">>, <<"StartFrame">>,
     <<"BindEye", "Left">>, <<"Draw", leftCamera>> >>
  \o (IF noVrApi THEN <<>>
      ELSE << <<"BindEye", "Right">>, <<"Draw", rightCamera>> >>)
  \o << <<"EndFrame">> >>

\* if (m.handleAudioPoseMethod) { ... CallVoidMethod(..., handleAudioPoseMethod, ...) }
AudioPoseCalls ==
  IF handleAudioPoseMethod
  THEN << <<"GetHeadTransform">>,
          CallVoidMethod("handleAudioPose", handleAudioPoseMethod, <<>>) >>
  ELSE <<>>

\* The arguments of the last handleMotionEvent call in calls for controller
\* index idx, or before when there is none.
RECURSIVE LastPointerEvent(_, _, _, _)
LastPointerEvent(calls, idx, j, before) ==
  IF j > Len(calls) THEN before
  ELSE LastPointerEvent(calls, idx, j + 1,
         IF calls[j][1] = "handleMotionEvent" /\ calls[j][3][2] = idx
         THEN calls[j][3] ELSE before)

\* What the most recent executed frame computed for each controller record:
\* whether a frame has run since the record was made, the tuple
\* (x, y, pressed, handle) it computed (<<>>: none), whether the device
\* reported a scroll delta, and which; and the arguments of the most recent
\* pointer event sent for the record (<<>>: none yet).
FrameHistory(in, uc) ==
  [k \in 1..Len(controllers) |->
     [seen |-> TRUE,
      tuple |-> IF handleMotionEventMethod /\ uc.hits[k] # 0
                THEN <<in.ctl[k].hits[uc.hits[k]].point[1],
                       in.ctl[k].hits[uc.hits[k]].point[2],
                       in.ctl[k].pressed,
                       widgets[uc.hits[k]].handle>>
                ELSE <<>>,
      scrolled |-> in.ctl[k].scroll # <<>>,
      scroll |-> in.ctl[k].scroll,
      sent |-> LastPointerEvent(uc.calls, controllers[k].index, 1, last[k].sent)]]

NoHistory == [seen |-> FALSE, tuple |-> <<>>, scrolled |-> FALSE, scroll |-> <<>>,
              sent |-> <<>>]

\* An executed frame: ProcessEvents onward, given what UpdateControllers did.
FrameResult(in, uc) ==
  [executed |-> TRUE, glInitialized |-> TRUE,
   controllers |-> uc.controllers, widgets |-> uc.widgets,
   drawList |-> root,
   calls |-> (IF glInitialized THEN <<>> ELSE << <<"InitializeGL">> >>)
             \o << <<"ProcessEvents">>, <<"Update">> >>
             \o uc.calls \o RenderCalls \o AudioPoseCalls,
   last |-> FrameHistory(in, uc),
   hits |-> uc.hits]

\* Draw() on the frame input in: the state it leaves and the calls it makes.
DrawResult(in) ==
  IF DrawSkipped
  THEN [executed |-> FALSE, glInitialized |-> glInitialized,
        controllers |-> controllers, widgets |-> widgets,
        drawList |-> drawList, calls |-> <<>>, last |-> last, hits |-> <<>>]
  ELSE IF ~GLAfterDraw(in.glOk)
  THEN [executed |-> FALSE, glInitialized |-> FALSE,
        controllers |-> controllers, widgets |-> widgets,
        drawList |-> drawList, calls |-> << <<"InitializeGL">> >>, last |-> last,
        hits |-> <<>>]
  ELSE FrameResult(in, UpdateControllers(in))

\* ------------------------------------------------------------ frame inputs
Points == (0..MaxCoord) \X (0..MaxCoord)
ScrollReports == {<<>>} \cup ((0..MaxScroll) \X (0..MaxScroll))

\* What indeterminate fields may hold; initialized fields read no garbage.
GarbageOf(record, rich) ==
  LET B(f) == IF rich /\ f \in record.uninit THEN BOOLEAN
              ELSE IF f \in record.uninit THEN {FALSE, TRUE} \ {rich} ELSE {FALSE}
      N(f, top) == IF rich /\ f \in record.uninit THEN 0..top
                   ELSE IF f \in record.uninit THEN {top} ELSE {0}
  IN [pressed : B("pressed"), xx : N("xx", MaxCoord), yy : N("yy", MaxCoord),
      touched : B("touched"), touchPadX : N("touchPadX", MaxScroll),
      touchPadY : N("touchPadY", MaxScroll)]

\* Every widget misses.
AllMiss == [k \in 1..Len(widgets) |-> Miss]
\* Only widget w is hit, in bounds, at distance 1 and point p.
OnlyHit(w, p) == [k \in 1..Len(widgets) |-> IF k = w THEN HitAt(TRUE, 1, p) ELSE Miss]

CtlInputs(record, hitSet, pressedSet, scrollSet, rich) ==
  [hits : hitSet, pressed : pressedSet, scroll : scrollSet,
   garbage : GarbageOf(record, rich)]

\* The frame inputs of the lifecycle specification: each controller points
\* at nothing or at the first widget; one gesture or none is pending.
LifeCtl(record) ==
  CtlInputs(record,
            {AllMiss} \cup {OnlyHit(w, <<0, 0>>) : w \in (1..Len(widgets)) \cap {1}},
            {FALSE}, {<<>>}, FALSE)

\* The frame inputs of the frame specification, per controller: any single
\* bounded hit with any button state and scroll report; any combination of
\* hit results on the widgets; and, for a record whose fields are still
\* indeterminate, any values of those fields.
HitChoices == {Miss, HitAt(FALSE, 1, <<0, 0>>), HitAt(TRUE, 1, <<0, 0>>),
               HitAt(TRUE, 2, <<0, 0>>), HitAt(TRUE, farClip, <<0, 0>>)}

PointerHits == {AllMiss} \cup {OnlyHit(w, p) : w \in 1..Len(widgets), p \in Points}
AllHits == [1..Len(widgets) -> HitChoices]

FrameCtl(record) ==
  CtlInputs(record, PointerHits, BOOLEAN, ScrollReports, FALSE)
  \cup CtlInputs(record, AllHits, {FALSE}, {<<>>}, FALSE)
  \cup CtlInputs(record, {OnlyHit(1, <<0, 0>>)}, BOOLEAN,
                 {<<>>, <<0, 0>>, <<MaxScroll, MaxScroll>>}, TRUE)

GLOutcomes == IF glInitialized THEN {TRUE} ELSE BOOLEAN

FrameInputs ==
  [ctl : SeqProduct([k \in 1..Len(controllers) |-> FrameCtl(controllers[k])]),
   pending : {<<>>}, glOk : GLOutcomes]
  \cup [ctl : SeqProduct([k \in 1..Len(controllers) |-> LifeCtl(controllers[k])]),
        pending : SeqsUpTo(GestureTypes, MaxGestures), glOk : GLOutcomes]

LifeInputs ==
  [ctl : SeqProduct([k \in 1..Len(controllers) |-> LifeCtl(controllers[k])]),
   pending : {<<>>, <<"SwipeLeft">>},
   glOk : GLOutcomes]

\* -------------------------------------------------------------- operations
\* A variant of Init in which the world starts running (paused false).
InitRunning ==
  /\ noVrApi \in BOOLEAN
  /\ device = NullDevice
  /\ paused = FALSE
  /\ glInitialized = FALSE
  /\ controllerCount = 0
  /\ controllers = <<>>
  /\ widgets = <<>>
  /\ root = {}
  /\ drawList = {}
  /\ leftCamera = "null"
  /\ rightCamera = "null"
  /\ gestures = FALSE
  /\ env = FALSE
  /\ activity = FALSE
  /\ handleMotionEventMethod = FALSE
  /\ handleScrollEventMethod = FALSE
  /\ handleAudioPoseMethod = FALSE
  /\ handleGestureMethod = FALSE
  /\ last = <<>>

Init ==
  /\ noVrApi \in BOOLEAN
  /\ device = NullDevice
  /\ paused = TRUE
  /\ glInitialized = FALSE
  /\ controllerCount = 0
  /\ controllers = <<>>
  /\ widgets = <<>>
  /\ root = {}
  /\ drawList = {}
  /\ leftCamera = "null"
  /\ rightCamera = "null"
  /\ gestures = FALSE
  /\ env = FALSE
  /\ activity = FALSE
  /\ handleMotionEventMethod = FALSE
  /\ handleScrollEventMethod = FALSE
  /\ handleAudioPoseMethod = FALSE
  /\ handleGestureMethod = FALSE
  /\ last = <<>>

\* A variant of RootWithoutControllers that leaves the nodes in the scene.
RootKept == root

\* The null branch of RegisterDeviceDelegate: the controller nodes leave the
\* scene root and the list is cleared.
RootWithoutControllers ==
  root \ {controllers[k].controller : k \in 1..Len(controllers)}

RegisterDeviceDelegate(aDelegate) ==
  /\ device' = aDelegate
  /\ IF aDelegate.present
     THEN /\ leftCamera' = "left"
          /\ rightCamera' = "right"
          /\ controllerCount' = aDelegate.controllerCount
          /\ gestures' = aDelegate.gestures
          /\ UNCHANGED <<controllers, root, last>>
     ELSE /\ leftCamera' = "null"
          /\ rightCamera' = "null"
          /\ root' = RootWithoutControllers
          /\ controllers' = <<>>
          /\ last' = <<>>
          /\ controllerCount' = 0
          /\ gestures' = FALSE
  /\ UNCHANGED <<paused, glInitialized, widgets, drawList, javaVars, noVrApi>>

Pause ==
  /\ paused' = TRUE
  /\ UNCHANGED <<device, glInitialized, controllerCount, controllers, widgets, root,
                 drawList, leftCamera, rightCamera, gestures, javaVars, noVrApi, last>>

Resume ==
  /\ paused' = FALSE
  /\ UNCHANGED <<device, glInitialized, controllerCount, controllers, widgets, root,
                 drawList, leftCamera, rightCamera, gestures, javaVars, noVrApi, last>>

\* InitializeWindows: the browser widget, then the URL bar.
InitializeWindows ==
  LET h == Len(widgets)
      browser == NewWidget(WidgetTypeBrowser, h + 1, WidgetNode(h + 2, h + 1))
      urlbar == NewWidget(WidgetTypeURLBar, h + 2, WidgetNode(h + 2, h + 2))
  IN [widgets |-> widgets \o <<browser, urlbar>>,
      root |-> root \cup {browser.node, urlbar.node}]

\* for (ix = 0; ix < m.controllerCount; ix++) { ControllerRecord record(ix); ... }
NewRecords(made) ==
  [k \in 1..controllerCount |->
     MoveConstruct([ControllerRecord(k - 1) EXCEPT !.controller = ControllerNode(made, k - 1)])]

\* aEnv: the JNIEnv is non-null; globalRef: NewGlobalRef succeeds; clazz:
\* GetObjectClass succeeds; found: the methods GetMethodID resolves; named:
\* the controller indices for which GetControllerModelName is not empty.
InitializeJava(aEnv, globalRef, clazz, found, named) ==
  /\ env' = aEnv
  /\ IF ~aEnv
     THEN UNCHANGED <<activity, handleMotionEventMethod, handleScrollEventMethod,
                      handleAudioPoseMethod, handleGestureMethod, widgets, root,
                      controllers, last>>
     ELSE /\ activity' = globalRef
          /\ IF ~globalRef \/ ~clazz
             THEN UNCHANGED <<handleMotionEventMethod, handleScrollEventMethod,
                              handleAudioPoseMethod, handleGestureMethod, widgets, root,
                              controllers, last>>
             ELSE /\ Len(widgets) + 2 <= MaxWidgets
                  /\ handleMotionEventMethod' = ("handleMotionEvent" \in found)
                  /\ handleScrollEventMethod' = ("handleScrollEvent" \in found)
                  /\ handleAudioPoseMethod' = ("handleAudioPose" \in found)
                  /\ handleGestureMethod' = ("handleGesture" \in found)
                  /\ LET w == InitializeWindows
                     IN /\ widgets' = w.widgets
                        /\ IF Len(controllers) = 0 /\ controllerCount > 0
                           THEN LET recs == NewRecords(Len(w.widgets))
                                    nodes == {recs[k].controller :
                                                k \in {j \in 1..Len(recs) : recs[j].index \in named}}
                                IN /\ controllers' = recs
                                   /\ last' = [k \in 1..Len(recs) |-> NoHistory]
                                   /\ root' = w.root \cup nodes
                                              \cup {FloorNode(Len(w.widgets))}
                           ELSE /\ root' = w.root
                                /\ UNCHANGED <<controllers, last>>
  /\ UNCHANGED <<device, paused, glInitialized, controllerCount, drawList,
                 leftCamera, rightCamera, gestures, noVrApi>>

ShutdownJava ==
  /\ activity' = FALSE
  /\ handleMotionEventMethod' = FALSE
  /\ handleScrollEventMethod' = FALSE
  /\ handleAudioPoseMethod' = FALSE
  /\ handleGestureMethod' = FALSE
  /\ env' = FALSE
  /\ UNCHANGED <<device, paused, glInitialized, controllerCount, controllers, widgets,
                 root, drawList, leftCamera, rightCamera, gestures, noVrApi, last>>

\* glOk: m.context->InitializeGL() succeeds.
InitializeGL(glOk) ==
  /\ glInitialized' = (IF glInitialized THEN TRUE ELSE glOk)
  /\ UNCHANGED <<device, paused, controllerCount, controllers, widgets, root, drawList,
                 leftCamera, rightCamera, gestures, javaVars, noVrApi, last>>

ShutdownGL ==
  /\ glInitialized' = FALSE
  /\ UNCHANGED <<device, paused, controllerCount, controllers, widgets, root, drawList,
                 leftCamera, rightCamera, gestures, javaVars, noVrApi, last>>

\* The state a Draw() with result r leaves.  The history variable follows
\* the frames only where track is TRUE (the frame specification).
DrawEffect(r, track) ==
  /\ glInitialized' = r.glInitialized
  /\ controllers' = r.controllers
  /\ widgets' = r.widgets
  /\ drawList' = r.drawList
  /\ last' = IF track THEN r.last ELSE last
  /\ UNCHANGED <<device, paused, controllerCount, root, leftCamera, rightCamera,
                 gestures, javaVars, noVrApi>>

\* Draw() on the frame input in.
Draw(in, track) == DrawEffect(DrawResult(in), track)

\* ------------------------------------------------------------------ claims
\* The calls of a call list with one of the given names, in order.
Named(calls, names) == SelectSeq(calls, LAMBDA c : c[1] \in names)
\* The pointer, scroll events of a call list sent for controller index idx.
PointerEvents(calls, idx) ==
  SelectSeq(calls, LAMBDA c : c[1] = "handleMotionEvent" /\ c[3][2] = idx)
ScrollEvents(calls, idx) ==
  SelectSeq(calls, LAMBDA c : c[1] = "handleScrollEvent" /\ c[3][2] = idx)
\* The widgets (positions) a hit test reports as hit within bounds.
Bounded(hits) == {w \in 1..Len(widgets) : hits[w].hit /\ hits[w].isInWidget}
\* The number of fields in which two tuples (x, y, pressed, handle) differ.
FieldsDiffering(t, u) == Cardinality({j \in 1..4 : t[j] # u[j]})
\* Draw() leaves controllers, widgets, draw list and glInitialized as they are.
LeavesState(r) ==
  /\ r.controllers = controllers
  /\ r.widgets = widgets
  /\ r.drawList = drawList
  /\ r.glInitialized = glInitialized

\* C1: when two consecutive executed frames compute the same tuple
\* (localX, localY, pressed, widgetHandle) for a controller, the second
\* frame sends no pointer event for it; when exactly one field differs, it
\* sends exactly one pointer event, carrying the four current values and the
\* controller index.
C1_EdgeTriggered ==
  \A in \in FrameInputs :
    LET r == DrawResult(in)
    IN r.executed =>
         \A k \in 1..Len(controllers) :
           LET now == r.last[k].tuple
               before == last[k].tuple
               sent == PointerEvents(r.calls, controllers[k].index)
           IN (now # <<>> /\ before # <<>>) =>
                /\ (now = before => sent = <<>>)
                /\ (FieldsDiffering(now, before) = 1 =>
                      /\ Len(sent) = 1
                      /\ sent[1][3] = <<now[4], controllers[k].index, now[3], now[1], now[2]>>)

\* C1 witness: a frame has computed a tuple for a controller, and both a
\* frame that repeats it (no event) and a frame that changes only the button
\* state (one event) can follow.
C1_Witness ==
  /\ Len(controllers) > 0
  /\ last[1].tuple # <<>>
  /\ \E in \in FrameInputs :
       /\ DrawResult(in).executed
       /\ DrawResult(in).last[1].tuple = last[1].tuple
       /\ PointerEvents(DrawResult(in).calls, 0) = <<>>
  /\ \E in \in FrameInputs :
       /\ DrawResult(in).executed
       /\ DrawResult(in).last[1].tuple # <<>>
       /\ FieldsDiffering(DrawResult(in).last[1].tuple, last[1].tuple) = 1
       /\ DrawResult(in).last[1].tuple[3] # last[1].tuple[3]
       /\ Len(PointerEvents(DrawResult(in).calls, 0)) = 1

\* C2: a frame sends a scroll event for a controller only if the record's
\* touched flag was true on entry and the controller is not pressed; the
\* first frame of a touch (a scroll delta reported after a frame that
\* reported none, or in the first frame after the record was made) sends no
\* scroll event.
C2_ScrollNeedsBaseline ==
  \A in \in FrameInputs :
    LET r == DrawResult(in)
    IN r.executed =>
         \A k \in 1..Len(controllers) :
           LET scrolls == ScrollEvents(r.calls, controllers[k].index)
           IN /\ scrolls # <<>> =>
                   /\ ReadField(controllers[k], "touched", in.ctl[k].garbage)
                   /\ ~in.ctl[k].pressed
              /\ (in.ctl[k].scroll # <<>> /\ (~last[k].seen \/ ~last[k].scrolled))
                   => scrolls = <<>>

\* C3: after UpdateControllers the widgets whose pointer highlight is on
\* are exactly the widgets that were the nearest in-bounds hit of some
\* controller in that frame.
C3_HighlightsAreHits ==
  \A in \in LifeInputs :
    LET r == DrawResult(in)
    IN r.executed =>
         \A w \in 1..Len(widgets) :
           r.widgets[w].pointer
             = (\E k \in 1..Len(controllers) : NearestHit(in.ctl[k].hits).hitWidget = w)

\* C4: an executed frame with a gesture source and a resolved gesture
\* callback sends one gesture event per pending gesture of a recognized
\* kind (SwipeLeft as 0, SwipeRight as 1), whatever the number of
\* controllers, and none for any other kind.
RECURSIVE RecognizedCodes(_)
RecognizedCodes(pending) ==
  IF pending = <<>> THEN <<>>
  ELSE (IF Head(pending) = "SwipeLeft" THEN <<0>>
        ELSE IF Head(pending) = "SwipeRight" THEN <<1>>
        ELSE <<>>)
       \o RecognizedCodes(Tail(pending))

C4_GesturesOncePerFrame ==
  \A in \in LifeInputs :
    LET r == DrawResult(in)
        events == Named(r.calls, {"handleGesture"})
    IN (r.executed /\ gestures /\ handleGestureMethod) =>
         [j \in 1..Len(events) |-> events[j][3][1]] = RecognizedCodes(in.pending)

\* C5 as claimed: among the widgets whose hit test reports hit and
\* isInWidget the one with the least distance is selected, the earlier widget
\* on a tie, and some widget is selected whenever a bounded hit exists.
C5_NearestOfAllBounded ==
  \A in \in FrameInputs :
    \A k \in 1..Len(controllers) :
      LET hits == in.ctl[k].hits
          sel == NearestHit(hits).hitWidget
      IN Bounded(hits) # {} =>
           /\ sel \in Bounded(hits)
           /\ \A w \in Bounded(hits) :
                /\ hits[sel].distance <= hits[w].distance
                /\ hits[w].distance = hits[sel].distance => sel <= w

\* C5 as amended: the same among the bounded hits nearer than the far clip
\* plane; a bounded hit at farClip or beyond is never selected.
WithinClip(hits) == {w \in Bounded(hits) : hits[w].distance < farClip}

C5_NearestWithinClip ==
  \A in \in FrameInputs :
    LET r == DrawResult(in)
    IN r.executed =>
         \A k \in 1..Len(controllers) :
           LET hits == in.ctl[k].hits
               sel == r.hits[k]
           IN /\ WithinClip(hits) = {} => sel = 0
              /\ WithinClip(hits) # {} =>
                   /\ sel \in WithinClip(hits)
                   /\ \A w \in WithinClip(hits) :
                        /\ hits[sel].distance <= hits[w].distance
                        /\ hits[w].distance = hits[sel].distance => sel <= w

\* C5 witness: a frame has selected the second widget, and frames in which
\* two widgets tie, and in which the later widget is nearer, can follow.
C5_Witness ==
  /\ Len(controllers) > 0
  /\ controllers[1].widget = 2
  /\ \E in \in FrameInputs :
       /\ DrawResult(in).executed
       /\ Cardinality(WithinClip(in.ctl[1].hits)) = 2
       /\ in.ctl[1].hits[1].distance = in.ctl[1].hits[2].distance
       /\ DrawResult(in).hits[1] = 1
  /\ \E in \in FrameInputs :
       /\ DrawResult(in).executed
       /\ Cardinality(WithinClip(in.ctl[1].hits)) = 2
       /\ in.ctl[1].hits[2].distance < in.ctl[1].hits[1].distance
       /\ DrawResult(in).hits[1] = 2

\* C6: while paused, Draw() changes no state and makes no call.
C6_PausedDrawDoesNothing ==
  paused => \A in \in LifeInputs :
              /\ DrawResult(in).calls = <<>>
              /\ ~DrawResult(in).executed
              /\ LeavesState(DrawResult(in))

\* C6 witness: paused after frames have run, with a device, GL, widgets and
\* a controller whose pointer callback is resolved: Draw() would otherwise
\* run the frame.
C6_Witness ==
  /\ paused
  /\ device.present
  /\ glInitialized
  /\ handleMotionEventMethod
  /\ Len(controllers) > 0
  /\ controllers[1].widget # 0
  /\ \E in \in LifeInputs : NearestHit(in.ctl[1].hits).hitWidget # 0

\* C7: an unresolved callback disables only its own events: without the
\* scroll callback no scroll call is attempted; without the pointer callback
\* but with the scroll callback, a touched, unpressed controller that points
\* at a widget and reports a scroll delta still gets its scroll event.
C7_CallbacksIndependent ==
  \A in \in FrameInputs :
    LET r == DrawResult(in)
    IN r.executed =>
         /\ (~handleScrollEventMethod /\ handleMotionEventMethod) =>
              /\ Named(r.calls, {"handleScrollEvent"}) = <<>>
              /\ \A k \in 1..Len(controllers) :
                   (r.hits[k] # 0 /\ controllers[k].widget = 0)
                     => PointerEvents(r.calls, controllers[k].index) # <<>>
         /\ (~handleMotionEventMethod /\ handleScrollEventMethod) =>
              \A k \in 1..Len(controllers) :
                (/\ r.hits[k] # 0
                 /\ in.ctl[k].scroll # <<>>
                 /\ ReadField(controllers[k], "touched", in.ctl[k].garbage)
                 /\ ~in.ctl[k].pressed)
                  => ScrollEvents(r.calls, controllers[k].index) # <<>>

\* C8: a step that leaves the device delegate null (RegisterDeviceDelegate
\* with a null delegate) leaves the controller list empty, controllerCount
\* 0, none of the former records' nodes and no controller node under the
\* scene root, both cameras null and the gesture source null.
C8_DeregisterClears ==
  [][~device'.present =>
       /\ controllers' = <<>>
       /\ controllerCount' = 0
       /\ \A k \in 1..Len(controllers) : controllers[k].controller \notin root'
       /\ \A n \in root' : n.kind # "controller"
       /\ leftCamera' = "null"
       /\ rightCamera' = "null"
       /\ ~gestures']_vars

\* C8 witness: the delegate is null after two controller records with
\* visual nodes were made, drawn in a frame and then cleared.
C8_Witness ==
  /\ ~device.present
  /\ controllers = <<>>
  /\ Cardinality({n \in drawList : n.kind = "controller"}) = 2
  /\ \A n \in root : n.kind # "controller"

\* C9: Draw() runs the frame body exactly when a device is registered, it is
\* not paused, and GL is initialized or the lazy InitializeGL of this call
\* succeeds; InitializeGL is attempted exactly when the first two hold and
\* GL is not initialized, and before anything else; a failed attempt makes
\* no other call, changes no state and leaves glInitialized false.
C9_DrawPreconditions ==
  \A in \in LifeInputs :
    LET r == DrawResult(in)
        ready == device.present /\ ~paused
    IN /\ r.executed = (ready /\ (glInitialized \/ in.glOk))
       /\ (Named(r.calls, {"InitializeGL"}) # <<>>) = (ready /\ ~glInitialized)
       /\ Len(Named(r.calls, {"InitializeGL"})) <= 1
       /\ (ready /\ ~glInitialized) => r.calls[1] = <<"InitializeGL">>
       /\ (ready /\ ~glInitialized /\ ~in.glOk) =>
            /\ r.calls = << <<"InitializeGL">> >>
            /\ LeavesState(r)
            /\ ~r.glInitialized
       /\ r.executed => r.glInitialized /\ Named(r.calls, {"ProcessEvents"}) # <<>>
       /\ ~r.executed => Named(r.calls, {"ProcessEvents"}) = <<>>

\* C9 witness: GL was shut down after a frame had been drawn; the device is
\* still registered and not paused, so the next Draw() attempts InitializeGL
\* again.
C9_Witness ==
  /\ ~glInitialized
  /\ device.present
  /\ ~paused
  /\ drawList # {}

\* The steps of a frame, without the calls UpdateControllers makes.
FrameStepNames == {"ProcessEvents", "Update", "Reset", "Cull", "StartFrame",
                   "BindEye", "Draw", "EndFrame", "handleAudioPose"}
ControllerCallNames == {"GetControllerTransform", "SetTransform",
                        "TestControllerIntersection", "ConvertToWidgetCoordinates",
                        "GetControllerButtonState", "GetControllerScrolled",
                        "handleMotionEvent", "handleScrollEvent", "handleGesture"}
FrameSteps(calls) ==
  LET steps == Named(calls, FrameStepNames)
  IN [j \in 1..Len(steps) |->
        IF steps[j][1] \in {"BindEye", "Draw"}
        THEN <<steps[j][1], steps[j][2]>> ELSE <<steps[j][1]>>]
\* UpdateControllers runs between context Update and the draw list's Reset.
ControllersBetweenUpdateAndReset(calls) ==
  \A j \in 1..Len(calls) :
    calls[j][1] \in ControllerCallNames =>
      /\ \E i \in 1..(j - 1) : calls[i][1] = "Update"
      /\ \A i \in 1..(j - 1) : calls[i][1] # "Reset"
HeadPoseStep == IF handleAudioPoseMethod THEN << <<"handleAudioPose">> >> ELSE <<>>

\* C10 as claimed: every executed frame makes, in this order and once each,
\* ProcessEvents, Update, (UpdateControllers), Reset, Cull, StartFrame,
\* BindEye(Left), Draw(left), BindEye(Right), Draw(right), EndFrame, and then
\* the head-pose call iff its callback is resolved.
C10_BothEyesEveryFrame ==
  \A in \in LifeInputs :
    LET r == DrawResult(in)
    IN r.executed =>
         /\ FrameSteps(r.calls) =
              << <<"ProcessEvents">>, <<"Update">>, <<"Reset">>, <<"Cull">>,
                 <<"StartFrame">>, <<"BindEye", "Left">>, <<"Draw", "left">>,
                 <<"BindEye", "Right">>, <<"Draw", "right">>, <<"EndFrame">> >>
              \o HeadPoseStep
         /\ ControllersBetweenUpdateAndReset(r.calls)

\* C10 as amended: the same, except that a build that defines
\* VRBROWSER_NO_VR_API leaves out BindEye(Right) and Draw(right).
C10_FrameOrder ==
  \A in \in LifeInputs :
    LET r == DrawResult(in)
    IN r.executed =>
         /\ FrameSteps(r.calls) =
              << <<"ProcessEvents">>, <<"Update">>, <<"Reset">>, <<"Cull">>,
                 <<"StartFrame">>, <<"BindEye", "Left">>, <<"Draw", "left">> >>
              \o (IF noVrApi THEN <<>>
                  ELSE << <<"BindEye", "Right">>, <<"Draw", "right">> >>)
              \o << <<"EndFrame">> >>
              \o HeadPoseStep
         /\ ControllersBetweenUpdateAndReset(r.calls)

\* C10 witness: a frame has been drawn (the draw list holds the culled
\* scene) with a controller, and the next frame reaches a host callback in
\* UpdateControllers and the head-pose call.
C10_Witness ==
  /\ drawList # {}
  /\ Len(controllers) > 0
  /\ controllers[1].widget # 0
  /\ handleAudioPoseMethod
  /\ \E in \in LifeInputs :
       /\ DrawResult(in).executed
       /\ Named(DrawResult(in).calls, {"handleGesture"}) # <<>>

\* The four pointer fields of a record hold values (none is indeterminate)
\* and these are the arguments (handle, index, pressed, x, y) of an event.
HoldsEvent(record, args) ==
  /\ record.uninit \cap {"xx", "yy", "pressed"} = {}
  /\ <<record.widget, record.index, record.pressed, record.xx, record.yy>> = args
\* The four pointer fields of two records are the same, indeterminate or not.
SamePointerFields(r1, r2) ==
  /\ r1.widget = r2.widget /\ r1.xx = r2.xx /\ r1.yy = r2.yy /\ r1.pressed = r2.pressed
  /\ r1.uninit \cap {"xx", "yy", "pressed"} = r2.uninit \cap {"xx", "yy", "pressed"}

\* C11: for every controller record for which a pointer event has been
\* sent, (widget, xx, yy, pressed) are the arguments of the most recent
\* pointer event sent for it; a frame that sends no pointer event for a
\* controller leaves the four fields as they are, and a frame that sends one
\* leaves them equal to its arguments.
C11_RecordIsLastSent ==
  /\ \A k \in 1..Len(controllers) :
       last[k].sent # <<>> => HoldsEvent(controllers[k], last[k].sent)
  /\ \A in \in FrameInputs :
       LET r == DrawResult(in)
       IN \A k \in 1..Len(controllers) :
            LET sent == PointerEvents(r.calls, controllers[k].index)
            IN /\ sent = <<>> => SamePointerFields(r.controllers[k], controllers[k])
               /\ sent # <<>> => Len(sent) = 1 /\ HoldsEvent(r.controllers[k], sent[1][3])

\* C11 witness: a pointer event with the button pressed at a point other
\* than the origin of the second widget has been sent for a controller, and
\* frames that send another event and frames that send none can follow.
C11_Witness ==
  /\ Len(controllers) > 0
  /\ last[1].sent # <<>>
  /\ last[1].sent[3]
  /\ last[1].sent[4] # 0
  /\ controllers[1].widget = widgets[2].handle
  /\ \E in \in FrameInputs : PointerEvents(DrawResult(in).calls, 0) # <<>>
  /\ \E in \in FrameInputs :
       DrawResult(in).executed /\ PointerEvents(DrawResult(in).calls, 0) = <<>>

\* C12: in every executed frame in which the device reports no scroll delta
\* for a controller, the record's touched flag is false at the end of the
\* frame, whether or not a widget is hit.
C12_TouchedResetWithoutScroll ==
  \A in \in FrameInputs :
    LET r == DrawResult(in)
    IN r.executed =>
         \A k \in 1..Len(controllers) :
           in.ctl[k].scroll = <<>> =>
             /\ "touched" \notin r.controllers[k].uninit
             /\ ~r.controllers[k].touched

\* C13: every scroll event carries ((scrollX - touchPadX) * kScrollFactor,
\* (scrollY - touchPadY) * kScrollFactor) where (touchPadX, touchPadY) is
\* the delta the device reported for the controller in the preceding
\* executed frame; and after a frame that reports a scroll delta the record
\* holds touched = true and that delta.
C13_ScrollDeltaFromPreviousFrame ==
  \A in \in FrameInputs :
    LET r == DrawResult(in)
    IN r.executed =>
         \A k \in 1..Len(controllers) :
           LET scrolls == ScrollEvents(r.calls, controllers[k].index)
           IN /\ \A j \in 1..Len(scrolls) :
                   /\ last[k].scroll # <<>>
                   /\ scrolls[j][3][3] = (in.ctl[k].scroll[1] - last[k].scroll[1]) * kScrollFactor
                   /\ scrolls[j][3][4] = (in.ctl[k].scroll[2] - last[k].scroll[2]) * kScrollFactor
              /\ in.ctl[k].scroll # <<>> =>
                   /\ r.controllers[k].uninit \cap {"touched", "touchPadX", "touchPadY"} = {}
                   /\ r.controllers[k].touched
                   /\ r.controllers[k].touchPadX = in.ctl[k].scroll[1]
                   /\ r.controllers[k].touchPadY = in.ctl[k].scroll[2]

\* C14: in every reachable state the controller records have pairwise
\* distinct indices and every index lies in 0..controllerCount-1.
C14_IndicesDistinctAndInRange ==
  /\ \A j, k \in 1..Len(controllers) :
       controllers[j].index = controllers[k].index => j = k
  /\ \A k \in 1..Len(controllers) :
       controllers[k].index \in 0..(controllerCount - 1)

\* C15: once a device reporting N > 0 controllers is registered and
\* InitializeJava has run through (the windows exist), whichever came first,
\* the controller list holds exactly N records.
C15_RecordsMatchRegisteredCount ==
  (device.present /\ controllerCount > 0 /\ Len(widgets) > 0)
    => Len(controllers) = controllerCount

\* C18: a resolved callback handle implies a non-null env and activity, and
\* every host call of a frame (pointer, scroll, gesture, head pose) is made
\* with a non-null env and activity.
C18_HostCallsHaveEnv ==
  /\ (handleMotionEventMethod \/ handleScrollEventMethod
        \/ handleAudioPoseMethod \/ handleGestureMethod) => (env /\ activity)
  /\ \A in \in LifeInputs :
       LET host == Named(DrawResult(in).calls, HostMethods)
       IN \A j \in 1..Len(host) : host[j][4] /\ host[j][5]

\* The calls UpdateControllers makes in the iteration of controller k.
CallsFor(in, k) == ControllerPass(controllers[k], in.ctl[k], in.pending).calls

\* C16: ConvertToWidgetCoordinates is called only with a widget and point
\* for which TestControllerIntersection of the same controller and frame
\* reported hit and isInWidget; a widget hit outside its bounds is never
\* selected and never named in a pointer or scroll event.
C16_ConvertOnlyBoundedHits ==
  \A in \in FrameInputs :
    LET r == DrawResult(in)
    IN r.executed =>
         \A k \in 1..Len(controllers) :
           LET hits == in.ctl[k].hits
               conv == Named(CallsFor(in, k), {"ConvertToWidgetCoordinates"})
               events == Named(CallsFor(in, k), {"handleMotionEvent", "handleScrollEvent"})
           IN /\ r.hits[k] \in Bounded(hits) \cup {0}
              /\ \A j \in 1..Len(conv) :
                   /\ r.hits[k] \in Bounded(hits)
                   /\ conv[j][2] = widgets[r.hits[k]].handle
                   /\ conv[j][3] = hits[r.hits[k]].point
              /\ \A j \in 1..Len(events) :
                   \E w \in Bounded(hits) : events[j][3][1] = widgets[w].handle

\* C16 witness: a frame has selected the second widget, and a frame can
\* follow in which the first widget's plane is hit outside its bounds while
\* the second widget is hit within bounds, selected and converted.
C16_Witness ==
  /\ Len(controllers) > 0
  /\ Len(widgets) > 1
  /\ controllers[1].widget = widgets[2].handle
  /\ \E in \in FrameInputs :
       /\ DrawResult(in).executed
       /\ in.ctl[1].hits[1].hit /\ ~in.ctl[1].hits[1].isInWidget
       /\ DrawResult(in).hits[1] = 2
       /\ Named(CallsFor(in, 1), {"ConvertToWidgetCoordinates"}) # <<>>

\* C17: a controller record that InitializeJava has stored and no frame has
\* touched yet holds widget = 0, pressed = false, xx = yy = 0, touched =
\* false, touchPadX = touchPadY = 0, none of them indeterminate.
C17_RecordStartsCleared ==
  \A k \in 1..Len(controllers) :
    ~last[k].seen =>
      /\ controllers[k].uninit = {}
      /\ controllers[k].widget = 0
      /\ ~controllers[k].pressed /\ controllers[k].xx = 0 /\ controllers[k].yy = 0
      /\ ~controllers[k].touched
      /\ controllers[k].touchPadX = 0 /\ controllers[k].touchPadY = 0

\* C19: in a frame in which no widget is hit within bounds nearer than the
\* far clip plane by a controller's ray, no pointer event and no scroll event
\* is sent for the controller and its record is left as it is; the transform
\* of its visual node is still set.
C19_NoHitLeavesRecord ==
  \A in \in FrameInputs :
    LET r == DrawResult(in)
    IN r.executed =>
         \A k \in 1..Len(controllers) :
           WithinClip(in.ctl[k].hits) = {} =>
             /\ PointerEvents(r.calls, controllers[k].index) = <<>>
             /\ ScrollEvents(r.calls, controllers[k].index) = <<>>
             /\ Named(CallsFor(in, k), {"ConvertToWidgetCoordinates",
                                        "GetControllerButtonState",
                                        "GetControllerScrolled"}) = <<>>
             /\ r.controllers[k] = controllers[k]
             /\ Named(CallsFor(in, k), {"SetTransform"})
                  = << <<"SetTransform", controllers[k].controller>> >>

\* C19 witness: a record that holds a widget and a touch baseline, and a
\* frame can follow in which nothing is hit while the device reports a scroll
\* delta.
C19_Witness ==
  /\ Len(controllers) > 0
  /\ controllers[1].widget # 0
  /\ controllers[1].touched /\ "touched" \notin controllers[1].uninit
  /\ \E in \in FrameInputs :
       /\ DrawResult(in).executed
       /\ Bounded(in.ctl[1].hits) = {}
       /\ in.ctl[1].scroll # <<>>
       /\ DrawResult(in).controllers[1] = controllers[1]

\* C20: every scroll event is sent in a frame in which the controller has a
\* nearest in-bounds widget, carries that widget's handle, and is sent only
\* if the button state sampled in that frame is not pressed.
C20_ScrollEventIsCurrent ==
  \A in \in FrameInputs :
    LET r == DrawResult(in)
    IN r.executed =>
         \A k \in 1..Len(controllers) :
           LET scrolls == ScrollEvents(r.calls, controllers[k].index)
           IN \A j \in 1..Len(scrolls) :
                /\ r.hits[k] \in WithinClip(in.ctl[k].hits)
                /\ scrolls[j][3][1] = widgets[r.hits[k]].handle
                /\ ~in.ctl[k].pressed
                /\ r.controllers[k].widget = widgets[r.hits[k]].handle
                /\ "pressed" \notin r.controllers[k].uninit
                /\ r.controllers[k].pressed = in.ctl[k].pressed

\* C20 witness: a record that holds the first widget, a pressed button and
\* a touch baseline, and a frame can follow that hits the second widget with
\* the button released and sends a scroll event.
C20_Witness ==
  /\ Len(controllers) > 0
  /\ Len(widgets) > 1
  /\ controllers[1].widget = widgets[1].handle
  /\ controllers[1].pressed /\ "pressed" \notin controllers[1].uninit
  /\ controllers[1].touched /\ "touched" \notin controllers[1].uninit
  /\ \E in \in FrameInputs :
       /\ DrawResult(in).hits[1] = 2
       /\ ScrollEvents(DrawResult(in).calls, 0) # <<>>

\* C21: once the scene is initialized the widget list holds exactly one
\* browser widget and one URL-bar widget, with exactly their two nodes under
\* the scene root, whatever InitializeJava and ShutdownJava calls follow.
C21_TwoWidgets ==
  Len(widgets) > 0 =>
    /\ Cardinality({k \in 1..Len(widgets) : widgets[k].type = WidgetTypeBrowser}) = 1
    /\ Cardinality({k \in 1..Len(widgets) : widgets[k].type = WidgetTypeURLBar}) = 1
    /\ Len(widgets) = 2
    /\ Cardinality({n \in root : n.kind = "widget"}) = 2

\* C22: a new BrowserWorld is paused; paused becomes false only by Resume()
\* and true again only by Pause(); and while paused no Draw() runs the frame
\* body or makes a call.  Hence no frame runs before the first Resume(), and
\* IsPaused() is false from a Resume() to the next Pause().
C22_PausedUntilResume ==
  /\ paused = TRUE
  /\ [][(paused' # paused) => (IF paused' THEN Pause ELSE Resume)]_vars
  /\ [](paused => \A in \in LifeInputs :
                    ~DrawResult(in).executed /\ DrawResult(in).calls = <<>>)

\* C22 witness: Resume() has been called and a frame has run since (the
\* draw list holds the culled scene), and the world is still not paused.
C22_Witness ==
  /\ ~paused
  /\ device.present
  /\ glInitialized
  /\ Len(widgets) > 0
  /\ drawList # {}
  /\ \E in \in LifeInputs : DrawResult(in).executed

\* ----------------------------------------------------------- specification
\* The activity classes of the lifecycle specification: one with every
\* callback, one with the scroll and gesture callbacks only.
LifeHosts == {HostMethods, {"handleScrollEvent", "handleGesture"}}

DoRegister == \E aDelegate \in DeviceDelegates(MaxControllers) \cup {NullDevice} :
                RegisterDeviceDelegate(aDelegate)
\* The outcomes of InitializeJava's JNI calls: a null env, a failed
\* NewGlobalRef, a failed GetObjectClass, or none of these.
JniOutcomes == {<<FALSE, FALSE, FALSE>>, <<TRUE, FALSE, FALSE>>,
                <<TRUE, TRUE, FALSE>>, <<TRUE, TRUE, TRUE>>}

JavaInputs(hosts) ==
  {[jni |-> j, found |-> f, named |-> n] :
     j \in JniOutcomes \ {<<TRUE, TRUE, TRUE>>}, f \in {{}}, n \in {{}}}
  \cup {[jni |-> <<TRUE, TRUE, TRUE>>, found |-> f, named |-> n] :
          f \in hosts, n \in {{}, 0..(controllerCount - 1)}}

DoInitializeJava == \E j \in JavaInputs(LifeHosts) :
                      InitializeJava(j.jni[1], j.jni[2], j.jni[3], j.found, j.named)
DoInitializeGL == \E glOk \in BOOLEAN : InitializeGL(glOk)
DoDraw == \E in \in LifeInputs : Draw(in, FALSE)

Next ==
  \/ DoRegister
  \/ Pause
  \/ Resume
  \/ DoInitializeJava
  \/ ShutdownJava
  \/ DoInitializeGL
  \/ ShutdownGL
  \/ DoDraw

Spec == Init /\ [][Next]_vars

\* The frame specification: one session.  The host registers a device,
\* initialises Java once (in either order), resumes, and draws frames on
\* every frame input of FrameInputs.
FrameHosts == SUBSET HostMethods

RegisterOnce == /\ ~device.present
                /\ \E aDelegate \in DeviceDelegates(FrameControllers) :
                     RegisterDeviceDelegate(aDelegate)
InitializeJavaOnce == /\ Len(widgets) = 0
                      /\ \E found \in FrameHosts :
                           InitializeJava(TRUE, TRUE, TRUE, found, 0..(controllerCount - 1))
DrawFrame == \E in \in FrameInputs : Draw(in, TRUE)

NextFrames ==
  \/ RegisterOnce
  \/ InitializeJavaOnce
  \/ Resume
  \/ DrawFrame

InitFrames == Init /\ ~noVrApi

SpecFrames == InitFrames /\ [][NextFrames]_vars
====
